---- MODULE Spec2Model ----
(***************************************************************************)
(* Model of src/src/Grid.vue: the virtual-scroll grid's reactive pipeline. *)
(*                                                                         *)
(*   heightAboveWindow$ , resizeMeasure$  --combineLatest-->               *)
(*   switchMap( windowing -> range -> mergeMap(memoized pageProvider,      *)
(*              startWith placeholder) -> scan(remove/insertAll)           *)
(*              -> debounceTime(100) -> slice )                            *)
(*   --> buffer$ scan (slot reconciler)                                    *)
(*                                                                         *)
(* One action per external event: the component is mounted, the window is  *)
(* scrolled or resized, a prop is changed, a promise of the page provider  *)
(* settles, the debounce timer of the running query expires.  An action is *)
(* the whole synchronous handler together with the microtasks it leaves    *)
(* behind.  A resize event the browser dispatches has a microtask          *)
(* checkpoint after each of its three listeners and takes three actions;   *)
(* one dispatched by a script runs its listeners in one piece.             *)
(***************************************************************************)
EXTENDS Integers, Sequences, FiniteSets, TLC

VARIABLES
    totalCount,         \* props.length
    pageSize,           \* props.pageSize
    extra,              \* props.pageProvider: the items it returns beyond a page
    settled,            \* props.pageProvider: it returns its promises resolved already
    pc,                 \* "idle", or the listener of a resize event that is to run next
    mounted,            \* onMounted hooks have run
    innerHeight,        \* window.innerHeight
    heightAboveWindow,  \* latest value of heightAboveWindow$ held by combineLatest
    measure,            \* latest value of resizeMeasure$ held by combineLatest
    contentHeight,      \* useObservable(contentHeight$)
    cache,              \* memoizeWith's table: key -> promise
    calls,              \* key -> number of invocations of props.pageProvider
    inners,             \* switchMap's subscribed inner observables: query id -> state
    buffer,             \* useObservable(buffer$): the rendered slots
    rec,                \* the last run of the buffer$ reducer: its inputs and locals
    status,             \* "running", or "error" once visibleItems$ has errored
    issued,             \* number of values combineLatest has emitted (queries issued)
    events              \* number of scroll and resize events handled

vars == << totalCount, pageSize, extra, settled, pc, mounted, innerHeight,
           heightAboveWindow, measure, contentHeight, cache, calls, inners, buffer,
           rec, status, issued, events >>

(***************************************************************************)
(* Bounds of the model.                                                    *)
(***************************************************************************)
MaxEvents == 1          \* scroll and resize events of one run, after the mount

\* the inputs of the runs of Spec
PageSizes == {4}
\* the values props.pageSize is changed to by the parent component
ChangedPageSizes == {8}
Lengths == {8}
\* the values props.length is changed to by the parent component
ChangedLengths == {9}
\* the scroll positions, the height of the window at the mount and after a
\* resize; the runs resize the window at the scroll position it has
Tops == {0, 12}
InitialInnerHeights == {1}
InnerHeights == {3}
\* props.pageProvider: how many items it returns beyond the page asked for,
\* the pages whose fetch may fail, and whether its promises are resolved
\* already when it returns them (an async function that awaits nothing)
Extras == {0, 1}
FailingPages == {1}
Settled == {FALSE, TRUE}
\* what resizeMeasure$ can emit: itemHeight + rowGap, itemWidth + colGap
Measure(g, c, ih, iw) ==
    [ rowGap |-> g, columns |-> c, itemHeightWithGap |-> ih + g,
      itemWidthWithGap |-> iw ]
Measures == { Measure(0, 1, 2, 1), Measure(1, 2, 3, 1), Measure(0, 1, 0, 0) }

\* the inputs of the runs of SpecWindow: every geometry up to these sizes
MaxWinTop == 8          \* heightAboveWindow
MaxWinHeight == 2       \* window.innerHeight
MaxGap == 1             \* grid-row-gap
MaxColumns == 2         \* tracks of grid-template-columns
MaxItemHeight == 2      \* probe.offsetHeight
MaxPageSize == 3        \* props.pageSize
WinLengths == {1, 7}
WinMeasures ==
    { Measure(g, c, ih, 1) : g \in 0..MaxGap, c \in 1..MaxColumns, ih \in 0..MaxItemHeight }

(***************************************************************************)
(* Arithmetic of the source.                                               *)
(***************************************************************************)
Max(a, b) == IF a >= b THEN a ELSE b
Min(a, b) == IF a <= b THEN a ELSE b
\* Math.floor(a / b) and Math.ceil(a / b) for b > 0
Floor(a, b) == a \div b
Ceil(a, b) == -((-a) \div b)

(***************************************************************************)
(* Ramda list functions, as Ramda computes them.                           *)
(***************************************************************************)
\* R.equals on two InternalItem objects: own properties index, value, style
Equals(a, b) == a.index = b.index /\ a.value = b.value /\ a.style = b.style

\* _includes(x, list) by R.equals
Includes(x, list) == \E i \in 1..Len(list) : Equals(list[i], x)

RECURSIVE DifferenceFrom(_, _, _)
DifferenceFrom(first, seen, out) ==
    IF first = << >> THEN out
    ELSE IF Includes(Head(first), seen)
         THEN DifferenceFrom(Tail(first), seen, out)
         ELSE DifferenceFrom(Tail(first), Append(seen, Head(first)),
                             Append(out, Head(first)))

\* R.difference(first, second): the elements of first not in second, each once
Difference(first, second) == DifferenceFrom(first, second, << >>)

\* R.zip
ZipNothing(a, b) == << >>
Zip(a, b) == [i \in 1..Min(Len(a), Len(b)) |-> << a[i], b[i] >>]

\* R.without(xs, list)
WithoutNothing(xs, list) == list
Without(xs, list) == SelectSeq(list, LAMBDA x : ~Includes(x, xs))

\* R.remove(start, count, list): a copy spliced at start
Remove(start, count, list) ==
    IF start >= Len(list) THEN list
    ELSE SubSeq(list, 1, start) \o SubSeq(list, start + count + 1, Len(list))

\* R.insertAll(idx, elts, list)
InsertAll(idx, elts, list) ==
    LET at == IF idx < Len(list) /\ idx >= 0 THEN idx ELSE Len(list)
    IN  SubSeq(list, 1, at) \o elts \o SubSeq(list, at + 1, Len(list))

\* R.slice(from, to, list) for 0 <= from <= to
Slice(from, to, list) == SubSeq(list, Min(from, Len(list)) + 1, Min(to, Len(list)))

(***************************************************************************)
(* Windowing: the head of the switchMap projection.                        *)
(***************************************************************************)
\* itemHeightWithGap && Math.ceil((window.innerHeight + rowGap) / itemHeightWithGap) + 1
RowsInViewAndOneMore(vh, m) ==
    (IF m.itemHeightWithGap = 0 THEN 0 ELSE Ceil(vh + m.rowGap, m.itemHeightWithGap)) + 1
RowsInView(vh, m) ==
    IF m.itemHeightWithGap = 0 THEN 0
    ELSE Ceil(vh + m.rowGap, m.itemHeightWithGap) + 1

\* itemHeightWithGap && Math.floor((heightAboveWindow + rowGap) / itemHeightWithGap)
RowsBeforeView(h, m) ==
    IF m.itemHeightWithGap = 0 THEN 0
    ELSE Floor(h + m.rowGap, m.itemHeightWithGap)

\* Math.max(offset - Math.floor(length / 2), 0)
BufferedOffsetUnclamped(offset, length) == offset - Floor(length, 2)
BufferedOffset(offset, length) == Max(offset - Floor(length, 2), 0)

\* Math.min(length * 2): the minimum of one number
BufferedLength(length) == length * 2

StartPage(bufferedOffset, ps) == Floor(bufferedOffset, ps)

\* Math.ceil((bufferedOffset + bufferedLength) / props.pageSize)
EndPageRoundedDown(bufferedOffset, bufferedLength, ps) ==
    Floor(bufferedOffset + bufferedLength, ps)
EndPage(bufferedOffset, bufferedLength, ps) ==
    Ceil(bufferedOffset + bufferedLength, ps)

Window(h, vh, m, ps) ==
    LET length == RowsInView(vh, m) * m.columns
        offset == RowsBeforeView(h, m) * m.columns
        bufferedOffset == BufferedOffset(offset, length)
        bufferedLength == BufferedLength(length)
        startPage == StartPage(bufferedOffset, ps)
        endPage == EndPage(bufferedOffset, bufferedLength, ps)
    IN  [ length |-> length, offset |-> offset,
          bufferedOffset |-> bufferedOffset, bufferedLength |-> bufferedLength,
          startPage |-> startPage, endPage |-> endPage,
          numberOfPages |-> endPage - startPage ]

\* contentHeight$'s projection
ContentHeightOfFullRows(m, len) ==
    m.itemHeightWithGap * Floor(len, m.columns) - m.rowGap
ContentHeight(m, len) ==
    m.itemHeightWithGap * Ceil(len, m.columns) - m.rowGap

(***************************************************************************)
(* Page provider and its memo table.                                       *)
(***************************************************************************)
\* memoizeWith's key function: `${pageNumber},${pageSize}`
Key(pageNumber, ps) == << pageNumber, ps >>

\* the length of the array props.pageProvider resolves the page of key k
\* with: the items of the collection that lie on the page, and extra more
\* when the provider does not keep to the page size
ResultLen(k) == Min(k[2], Max(0, totalCount - k[1] * k[2])) + extra

\* what props.pageProvider returns for key k: a promise, pending or resolved
\* already; inv numbers the invocations for the key, by is the query that
\* made this one
NewPromise(n, q, k) ==
    IF settled
    THEN [st |-> "resolved", len |-> ResultLen(k), inv |-> n, by |-> q]
    ELSE [st |-> "pending", len |-> 0, inv |-> n, by |-> q]

\* the array a resolved promise of page p carries: len opaque values
PageValues(p, len) == [i \in 1..len |-> << "item", p, i - 1 >>]

\* new Array(pageSize).fill(undefined)
Placeholder(ps) == [i \in 1..ps |-> << "undefined" >>]

(***************************************************************************)
(* The inner pipeline of one query.                                        *)
(***************************************************************************)
\* items.map(...) of the mergeMap projection; q and kind name the array the
\* objects are created for, which makes every created object distinct
InternalItems(items, pageNumber, m, ps, q, kind) ==
    [ li \in 1..Len(items) |->
        LET index == pageNumber * ps + (li - 1)
            x == (index % m.columns) * m.itemWidthWithGap
            y == Floor(index, m.columns) * m.itemHeightWithGap
        IN  [ index |-> index, value |-> items[li],
              style |-> << "translate", x, y >>,
              oid |-> << q, kind >> ] ]

\* the scan reducer of visibleItems$
ScanStep(visibleItems, localPageNumber, internalItems, ps) ==
    InsertAll(localPageNumber * ps, internalItems,
              Remove(localPageNumber * ps, Len(internalItems), visibleItems))

\* the slice after debounceTime; its bounds are computed when the query is
\* issued, with the page size ps of that moment
VisibleSlice(w, ps, acc) ==
    Slice(w.bufferedOffset % ps, (w.bufferedOffset % ps) + w.bufferedLength, acc)

(***************************************************************************)
(* buffer$: the slot reconciler.                                           *)
(***************************************************************************)
\* replaceMap.has / replaceMap.get: a Map keyed by object reference
MapHasNever(pairs, x) == FALSE
MapHas(pairs, x) == \E i \in 1..Len(pairs) : pairs[i][1] = x
MapGet(pairs, x) == pairs[CHOOSE i \in 1..Len(pairs) : pairs[i][1] = x][2]

Reconcile(buf, visibleItems) ==
    LET itemsToAdd == Difference(visibleItems, buf)
        itemsFreeToUse == Difference(buf, visibleItems)
        replaceMap == Zip(itemsFreeToUse, itemsToAdd)
        itemsToBeReplaced == [i \in 1..Len(replaceMap) |-> replaceMap[i][1]]
        itemsToReplaceWith == [i \in 1..Len(replaceMap) |-> replaceMap[i][2]]
        itemsToDelete == Difference(itemsFreeToUse, itemsToBeReplaced)
        itemsToAppend == Difference(itemsToAdd, itemsToReplaceWith)
        kept == Without(itemsToDelete, buf)
        mapped == [i \in 1..Len(kept) |->
                     IF MapHas(replaceMap, kept[i]) THEN MapGet(replaceMap, kept[i])
                     ELSE kept[i]]
    IN  [ result |-> mapped \o itemsToAppend,
          itemsToAdd |-> itemsToAdd,
          itemsFreeToUse |-> itemsFreeToUse,
          itemsToAppend |-> itemsToAppend ]

(***************************************************************************)
(* The pipeline's state as one record, so that the steps of a handler      *)
(* compose.                                                                *)
(***************************************************************************)
State ==
    [ cache |-> cache, calls |-> calls, inners |-> inners, buffer |-> buffer,
      rec |-> rec, status |-> status, issued |-> issued ]

NoWindow ==
    [ length |-> 0, offset |-> 0, bufferedOffset |-> 0, bufferedLength |-> 0,
      startPage |-> 0, endPage |-> 0, numberOfPages |-> 0 ]

NoMeasure ==
    [ rowGap |-> 0, columns |-> 1, itemHeightWithGap |-> 0, itemWidthWithGap |-> 0 ]

\* a value of visibleItems$ from query q reaches the buffer$ reducer
Emit(s, q) ==
    LET in == s.inners[q]
        visibleItems == VisibleSlice(in.w, in.ps, in.acc)
        r == Reconcile(s.buffer, visibleItems)
    IN  [ s EXCEPT !.buffer = r.result,
                   !.inners[q].timer = FALSE,
                   !.inners[q].emits = @ + 1,
                   !.rec = [ q |-> q, issued |-> s.issued, w |-> in.w, ps |-> in.ps,
                             P |-> s.buffer, V |-> visibleItems,
                             itemsToAppend |-> r.itemsToAppend ] ]

\* debounceTime on completion of its source: emit what is pending, complete
Complete(s, q) ==
    LET s1 == IF s.inners[q].timer THEN Emit(s, q) ELSE s
    IN  [ s1 EXCEPT !.inners[q].done = TRUE ]

\* debounceTime(100) on a value of the scan: the value is held back and the
\* timer is armed anew
DebounceTimePassesOn(s, q) == Emit(s, q)
DebounceTime(s, q) == [ s EXCEPT !.inners[q].timer = TRUE ]

\* from(promise) emits the resolved array of page p to query q and completes;
\* the array goes through map and scan, which read props.pageSize as it is
\* now, and reaches debounceTime
Deliver(s, q, p) ==
    LET in == s.inners[q]
        pr == s.cache[Key(p, in.ps)]
        items == InternalItems(PageValues(p, pr.len), p, in.m, pageSize, q, "fetched")
        acc1 == ScanStep(in.acc, p - in.w.startPage, items, pageSize)
        waiting1 == in.waiting \ {p}
        s1 == DebounceTime(
                [ s EXCEPT !.inners[q].acc = acc1,
                           !.inners[q].log = Append(@, << "fetched", p >>),
                           !.inners[q].waiting = waiting1 ],
                q)
    IN  IF waiting1 = {} THEN Complete(s1, q) ELSE s1

\* an error of from(promise) passes mergeMap, scan, debounceTime, switchMap and
\* the buffer$ scan: every subscription of the chain is closed
Fail(s) == [ s EXCEPT !.status = "error", !.inners = << >> ]

\* switchMap: the previous inner subscription is closed, the new one is kept
SwitchMapKeepsOld(ins, q, inner) == (q :> inner) @@ ins
SwitchMap(ins, q, inner) == q :> inner

\* memoizeWith's lookup: _has(key, cache)
MemoizedNever(c, k) == FALSE
Memoized(c, k) == k \in DOMAIN c

RECURSIVE SubscribePagesSettledAtOnce(_, _, _, _, _)
SubscribePagesSettledAtOnce(st, p, w, m, q) ==
    IF p >= w.endPage THEN st
    ELSE
        LET k == Key(p, pageSize)
            hit == Memoized(st.cache, k)
            n == IF k \in DOMAIN st.calls THEN st.calls[k] ELSE 0
            cache1 == IF hit THEN st.cache ELSE (k :> NewPromise(n + 1, q, k)) @@ st.cache
            calls1 == IF hit THEN st.calls ELSE (k :> (n + 1)) @@ st.calls
            ph == InternalItems(Placeholder(pageSize), p, m, pageSize, q, "placeholder")
            acc1 == ScanStep(st.acc, p - w.startPage, ph, pageSize)
            log1 == Append(st.log, << "placeholder", p >>)
            fulfilled == cache1[k].st = "resolved"
            items == InternalItems(PageValues(p, cache1[k].len), p, m, pageSize, q, "fetched")
        IN  SubscribePagesSettledAtOnce(
                [ cache |-> cache1, calls |-> calls1,
                  acc |-> IF fulfilled THEN ScanStep(acc1, p - w.startPage, items, pageSize)
                          ELSE acc1,
                  log |-> IF fulfilled THEN Append(log1, << "fetched", p >>) ELSE log1,
                  subs |-> (p :> cache1[k].inv) @@ st.subs ],
                p + 1, w, m, q)

RECURSIVE SubscribePages(_, _, _, _, _)
\* range(startPage, numberOfPages) |> mergeMap |> startWith |> scan, which all run
\* synchronously at subscription: page after page the memoized provider is
\* called and the page's placeholder is merged
SubscribePages(st, p, w, m, q) ==
    IF p >= w.endPage THEN st
    ELSE
        LET k == Key(p, pageSize)
            hit == Memoized(st.cache, k)
            n == IF k \in DOMAIN st.calls THEN st.calls[k] ELSE 0
            cache1 == IF hit THEN st.cache ELSE (k :> NewPromise(n + 1, q, k)) @@ st.cache
            calls1 == IF hit THEN st.calls ELSE (k :> (n + 1)) @@ st.calls
            ph == InternalItems(Placeholder(pageSize), p, m, pageSize, q, "placeholder")
        IN  SubscribePages(
                [ cache |-> cache1, calls |-> calls1,
                  acc |-> ScanStep(st.acc, p - w.startPage, ph, pageSize),
                  log |-> Append(st.log, << "placeholder", p >>),
                  subs |-> (p :> cache1[k].inv) @@ st.subs ],
                p + 1, w, m, q)

RECURSIVE Microtasks(_, _, _)
\* the microtask checkpoint after a query was issued: the callbacks of the
\* promises that were settled already when the query subscribed to them run
\* in page order
Microtasks(s, q, p) ==
    IF s.status = "error" \/ q \notin DOMAIN s.inners THEN s
    ELSE IF p >= s.inners[q].w.endPage THEN s
    ELSE
        LET pr == s.cache[Key(p, s.inners[q].ps)]
        IN  CASE pr.st = "resolved" -> Microtasks(Deliver(s, q, p), q, p + 1)
              [] pr.st = "rejected" -> Fail(s)
              [] OTHER -> Microtasks(s, q, p + 1)

\* the seed of the scan of visibleItems$: [] for every inner observable,
\* whatever inner observables ins there were before
SeedIsLastAccumulator(ins) ==
    IF DOMAIN ins = {} THEN << >>
    ELSE ins[CHOOSE q \in DOMAIN ins : \A r \in DOMAIN ins : r <= q].acc
Seed(ins) == << >>

\* the switchMap projection for one value [heightAboveWindow, measure] of
\* combineLatest; log lists the values the scan has received, emits counts
\* the values debounceTime has passed on, ps is props.pageSize as the
\* projection has read it
Subscribe(s, h, vh, m) ==
    LET q == s.issued + 1
        w == Window(h, vh, m, pageSize)
        st == SubscribePages(
                [ cache |-> s.cache, calls |-> s.calls, acc |-> Seed(s.inners),
                  log |-> << >>, subs |-> << >> ],
                w.startPage, w, m, q)
        inner == [ w |-> w, m |-> m, ps |-> pageSize, acc |-> st.acc, subs |-> st.subs,
                   log |-> st.log, emits |-> 0,
                   timer |-> w.numberOfPages > 0,
                   waiting |-> w.startPage .. (w.endPage - 1),
                   done |-> w.numberOfPages = 0 ]
    IN  [ s EXCEPT !.issued = q, !.cache = st.cache, !.calls = st.calls,
                   !.inners = SwitchMap(s.inners, q, inner) ]

\* a listener issues a query and returns; the microtasks run
IssueQuery(s, h, vh, m) ==
    LET s1 == Subscribe(s, h, vh, m)
    IN  Microtasks(s1, s1.issued, s1.inners[s1.issued].w.startPage)

RECURSIVE DeliverAll(_, _, _)
\* a promise that resolves calls back every subscription waiting for it
DeliverAll(s, qs, p) ==
    IF qs = {} THEN s
    ELSE LET q == CHOOSE x \in qs : \A y \in qs : x <= y
         IN  DeliverAll(Deliver(s, q, p), qs \ {q}, p)

\* the subscriptions that wait for the promise of key k
Waiting(s, k) ==
    { q \in DOMAIN s.inners : s.inners[q].ps = k[2] /\ k[1] \in s.inners[q].waiting }

(***************************************************************************)
(* Initial state: after setup(), before the component is mounted.          *)
(***************************************************************************)
Init ==
    /\ totalCount \in Lengths
    /\ pageSize \in PageSizes
    /\ extra \in Extras
    /\ settled \in Settled
    /\ pc = "idle"
    /\ innerHeight \in InitialInnerHeights
    /\ mounted = FALSE
    /\ heightAboveWindow = 0
    /\ measure = NoMeasure
    /\ contentHeight = [set |-> FALSE, px |-> 0]
    /\ cache = << >>
    /\ calls = << >>
    /\ inners = << >>
    /\ buffer = << >>
    /\ rec = [ q |-> 0, issued |-> 0, w |-> NoWindow, ps |-> pageSize, P |-> << >>,
               V |-> << >>, itemsToAppend |-> << >> ]
    /\ status = "running"
    /\ issued = 0
    /\ events = 0

Assign(s) ==
    /\ cache' = s.cache
    /\ calls' = s.calls
    /\ inners' = s.inners
    /\ buffer' = s.buffer
    /\ rec' = s.rec
    /\ status' = s.status
    /\ issued' = s.issued

(***************************************************************************)
(* Actions.                                                                *)
(***************************************************************************)
\* onMounted: heightAboveWindow$ emits, then resizeMeasure$ emits to
\* combineLatest (the first query) and to contentHeight$; the hooks run in
\* one piece
Mount(h, m) ==
    /\ ~mounted
    /\ mounted' = TRUE
    /\ heightAboveWindow' = h
    /\ measure' = m
    /\ contentHeight' = [set |-> TRUE, px |-> ContentHeight(m, totalCount)]
    /\ Assign(IssueQuery(State, h, innerHeight, m))
    /\ UNCHANGED << totalCount, pageSize, extra, settled, pc, innerHeight, events >>

\* a scroll event: heightAboveWindow$ emits, combineLatest pairs it with the
\* last measure.  setup() and the mount run in one task, so that no window
\* event is handled before the mount.
Scroll(h) ==
    /\ mounted
    /\ pc = "idle"
    /\ status = "running"
    /\ events < MaxEvents
    /\ events' = events + 1
    /\ heightAboveWindow' = h
    /\ Assign(IssueQuery(State, h, innerHeight, measure))
    /\ UNCHANGED << totalCount, pageSize, extra, settled, pc, mounted, innerHeight, measure,
                    contentHeight >>

\* a resize event of the browser, first listener: heightAboveWindow$ emits (a
\* query with the new window height and the old measure); the microtasks run
\* before the next listener
Resize(h, vh) ==
    /\ mounted
    /\ pc = "idle"
    /\ status = "running"
    /\ events < MaxEvents
    /\ events' = events + 1
    /\ pc' = "measure"
    /\ innerHeight' = vh
    /\ heightAboveWindow' = h
    /\ Assign(IssueQuery(State, h, vh, measure))
    /\ UNCHANGED << totalCount, pageSize, extra, settled, mounted, measure, contentHeight >>

\* the same event, second listener: resizeMeasure$ emits to combineLatest (a
\* query with the new measure); the microtasks run before the next listener
ResizeMeasure(m) ==
    /\ pc = "measure"
    /\ status = "running"
    /\ pc' = "content"
    /\ measure' = m
    /\ Assign(IssueQuery(State, heightAboveWindow, innerHeight, m))
    /\ UNCHANGED << totalCount, pageSize, extra, settled, mounted, innerHeight,
                    heightAboveWindow, contentHeight, events >>

\* the same event, third listener: resizeMeasure$ emits to contentHeight$.
\* The listener takes its own measure m of the grid, which the microtasks
\* since the second listener may have rendered anew; the second listener is
\* gone when visibleItems$ has errored
ResizeContentHeight(m) ==
    /\ \/ pc = "content"
       \/ pc = "measure" /\ status = "error"
    /\ pc' = "idle"
    /\ contentHeight' = [set |-> TRUE, px |-> ContentHeight(m, totalCount)]
    /\ UNCHANGED << totalCount, pageSize, extra, settled, mounted, innerHeight,
                    heightAboveWindow, measure, cache, calls, inners, buffer, rec, status,
                    issued, events >>

\* a resize event dispatched by a script (window.dispatchEvent): the
\* listeners run one after the other, the microtasks after the last; the
\* first query is unsubscribed before any of its promises calls back
ResizeScripted(h, vh, m) ==
    /\ mounted
    /\ pc = "idle"
    /\ status = "running"
    /\ events < MaxEvents
    /\ events' = events + 1
    /\ innerHeight' = vh
    /\ heightAboveWindow' = h
    /\ measure' = m
    /\ contentHeight' = [set |-> TRUE, px |-> ContentHeight(m, totalCount)]
    /\ Assign(IssueQuery(Subscribe(State, h, vh, measure), h, vh, m))
    /\ UNCHANGED << totalCount, pageSize, extra, settled, pc, mounted >>

\* a resize event once visibleItems$ has errored: only contentHeight$ is alive
ResizeAfterError(vh, m) ==
    /\ mounted
    /\ pc = "idle"
    /\ status = "error"
    /\ events < MaxEvents
    /\ events' = events + 1
    /\ innerHeight' = vh
    /\ contentHeight' = [set |-> TRUE, px |-> ContentHeight(m, totalCount)]
    /\ UNCHANGED << totalCount, pageSize, extra, settled, pc, mounted, heightAboveWindow,
                    measure, cache, calls, inners, buffer, rec, status, issued >>

\* the parent component gives props.length another value: the template is
\* rendered again; no stream of setup() reads the prop as a source
LengthChange(n) ==
    /\ mounted
    /\ pc = "idle"
    /\ totalCount' = n
    /\ UNCHANGED << pageSize, extra, settled, pc, mounted, innerHeight, heightAboveWindow,
                    measure, contentHeight, cache, calls, inners, buffer, rec, status,
                    issued, events >>

\* the parent component gives props.pageSize another value: the queries to
\* come and the deliveries to come of the running query read the new value
PageSizeChange(n) ==
    /\ mounted
    /\ pc = "idle"
    /\ pageSize' = n
    /\ UNCHANGED << totalCount, extra, settled, pc, mounted, innerHeight, heightAboveWindow,
                    measure, contentHeight, cache, calls, inners, buffer, rec, status,
                    issued, events >>

\* between the listeners of a resize event only microtasks run: of the
\* pending promises those can settle that the last listener's query made
SettlesNow(k) == pc # "idle" => cache[k].by = issued

\* the provider's promise for key k resolves
ResolvePage(k) ==
    /\ status = "running"
    /\ k \in DOMAIN cache
    /\ cache[k].st = "pending"
    /\ SettlesNow(k)
    /\ LET s1 == [ State EXCEPT !.cache[k].st = "resolved", !.cache[k].len = ResultLen(k) ]
       IN  Assign(DeliverAll(s1, Waiting(s1, k), k[1]))
    /\ UNCHANGED << totalCount, pageSize, extra, settled, pc, mounted, innerHeight,
                    heightAboveWindow, measure, contentHeight, events >>

\* the provider's promise for key k rejects
RejectPage(k) ==
    /\ status = "running"
    /\ k \in DOMAIN cache
    /\ cache[k].st = "pending"
    /\ SettlesNow(k)
    /\ LET s1 == [ State EXCEPT !.cache[k].st = "rejected" ]
       IN  Assign(IF Waiting(s1, k) = {} THEN s1 ELSE Fail(s1))
    /\ UNCHANGED << totalCount, pageSize, extra, settled, pc, mounted, innerHeight,
                    heightAboveWindow, measure, contentHeight, events >>

\* debounceTime(100): 100 ms have passed since the last value of the scan
DebounceFire(q) ==
    /\ pc = "idle"
    /\ q \in DOMAIN inners
    /\ inners[q].timer
    /\ Assign(Emit(State, q))
    /\ UNCHANGED << totalCount, pageSize, extra, settled, pc, mounted, innerHeight,
                    heightAboveWindow, measure, contentHeight, events >>

\* the runs checked change one prop, once, and their provider keeps to the
\* page size then
PropsAsGiven == totalCount \in Lengths /\ pageSize \in PageSizes /\ extra = 0

Next ==
    \/ \E h \in Tops, m \in Measures : Mount(h, m)
    \/ \E h \in Tops : Scroll(h)
    \/ \E vh \in InnerHeights : Resize(heightAboveWindow, vh)
    \/ \E m \in Measures : ResizeMeasure(m)
    \/ \E m \in Measures : ResizeContentHeight(m)
    \/ \E vh \in InnerHeights, m \in Measures : ResizeScripted(heightAboveWindow, vh, m)
    \/ \E vh \in InnerHeights, m \in Measures : ResizeAfterError(vh, m)
    \/ \E n \in ChangedLengths : PropsAsGiven /\ LengthChange(n)
    \/ \E n \in ChangedPageSizes : PropsAsGiven /\ PageSizeChange(n)
    \/ \E k \in DOMAIN cache : ResolvePage(k)
    \/ \E k \in DOMAIN cache : k[1] \in FailingPages /\ RejectPage(k)
    \/ \E q \in DOMAIN inners : DebounceFire(q)

Spec == Init /\ [][Next]_vars

\* the step of DebounceFire as it shows in inners, the step of ResolvePage
\* as it shows in cache, and the steps of ResizeMeasure and
\* ResizeContentHeight as they show in pc: no other step of Next changes
\* them so
TimerExpires ==
    \E q \in DOMAIN inners :
        /\ pc = "idle"
        /\ inners[q].timer
        /\ inners' = [inners EXCEPT ![q].timer = FALSE, ![q].emits = @ + 1]

FetchResolves ==
    \E k \in DOMAIN cache :
        /\ status = "running"
        /\ cache[k].st = "pending"
        /\ SettlesNow(k)
        /\ cache' = [cache EXCEPT ![k].st = "resolved", ![k].len = ResultLen(k)]

NextListenerRuns ==
    /\ pc # "idle"
    /\ pc' = IF pc = "measure" /\ status = "running" THEN "content" ELSE "idle"

\* the runs in which a timer that is due expires, a fetch that is pending
\* comes to resolve, unless it fails, and an event that is dispatched reaches
\* all its listeners: the event loop runs due timers and the listeners of an
\* event, and the page provider answers
SpecLive ==
    /\ Init
    /\ [][Next]_vars
    /\ WF_inners(TimerExpires)
    /\ WF_cache(FetchResolves)
    /\ WF_pc(NextListenerRuns)

(***************************************************************************)
(* The windowing alone: the component is mounted into any geometry of the  *)
(* bounded sizes.                                                          *)
(***************************************************************************)
InitWindow ==
    /\ totalCount \in WinLengths
    /\ pageSize \in 1..MaxPageSize
    /\ extra = 0
    /\ settled = FALSE
    /\ pc = "idle"
    /\ innerHeight \in 1..MaxWinHeight
    /\ mounted = FALSE
    /\ heightAboveWindow = 0
    /\ measure = NoMeasure
    /\ contentHeight = [set |-> FALSE, px |-> 0]
    /\ cache = << >>
    /\ calls = << >>
    /\ inners = << >>
    /\ buffer = << >>
    /\ rec = [ q |-> 0, issued |-> 0, w |-> NoWindow, ps |-> pageSize, P |-> << >>,
               V |-> << >>, itemsToAppend |-> << >> ]
    /\ status = "running"
    /\ issued = 0
    /\ events = 0

NextWindow == \E h \in 0..MaxWinTop, m \in WinMeasures : Mount(h, m)

SpecWindow == InitWindow /\ [][NextWindow]_vars

(***************************************************************************)
(* Properties.                                                             *)
(***************************************************************************)
Pages(w) == w.startPage .. (w.endPage - 1)

\* an item without the identity of the object that carries it
Content(x) == [ index |-> x.index, value |-> x.value, style |-> x.style ]
Contents(list) == { Content(list[i]) : i \in 1..Len(list) }

\* C1: the page provider is invoked at most once for each (pageNumber,
\* pageSize) key, whatever number of queries ask for the key, and every
\* subscription to the key holds the promise of that first invocation.
C1_ProviderInvokedOncePerKey ==
    /\ \A k \in DOMAIN calls : calls[k] <= 1
    /\ \A k \in DOMAIN cache : cache[k].inv = 1
    /\ \A q \in DOMAIN inners :
         \A p \in DOMAIN inners[q].subs : inners[q].subs[p] = 1

\* a key asked for by a second query while the fetch the first, superseded
\* query started is still in flight
C1_Witness ==
    \E q \in DOMAIN inners :
        \E p \in inners[q].waiting :
            /\ cache[Key(p, inners[q].ps)].st = "pending"
            /\ cache[Key(p, inners[q].ps)].by < q

RECURSIVE PlaceholdersMerged(_, _, _)
PlaceholdersMerged(acc, p, q) ==
    IF p >= inners[q].w.endPage THEN acc
    ELSE PlaceholdersMerged(
            ScanStep(acc, p - inners[q].w.startPage,
                     InternalItems(Placeholder(inners[q].ps), p, inners[q].m, inners[q].ps,
                                   q, "placeholder"),
                     inners[q].ps),
            p + 1, q)

RECURSIVE PagesMergedInOrder(_, _, _)
PagesMergedInOrder(acc, p, q) ==
    IF p >= inners[q].w.endPage THEN acc
    ELSE PagesMergedInOrder(
            ScanStep(acc, p - inners[q].w.startPage,
                     InternalItems(PageValues(p, cache[Key(p, inners[q].ps)].len), p,
                                   inners[q].m, inners[q].ps, q, "fetched"),
                     inners[q].ps),
            p + 1, q)

\* the accumulator of query q had its pages arrived in the order of request
InRequestOrder(q) ==
    PagesMergedInOrder(PlaceholdersMerged(<< >>, inners[q].w.startPage, q),
                       inners[q].w.startPage, q)

\* C2: once all pages of a query have resolved, its accumulator is the same
\* for every order of arrival: it is the one of arrival in request order.
C2_AccumulatorOrderIndependent ==
    \A q \in DOMAIN inners :
        inners[q].done => inners[q].acc = InRequestOrder(q)

\* C3: every value that reaches the buffer reconciler comes from the query
\* that was the last one issued at that moment.
C3_OnlyLatestQueryUpdatesBuffer == rec.q = rec.issued

\* the first update of the buffer comes from the second query, after a first
\* query that had asked for pages outside the second one's window
C3_Witness ==
    /\ rec.q >= 2
    /\ rec.P = << >>
    /\ \E k \in DOMAIN cache : k[1] \notin Pages(rec.w)

\* C4: a rejected page fetch leaves the pipeline running.
C4_RejectionLeavesPipelineRunning ==
    (\E k \in DOMAIN cache : cache[k].st = "rejected") => status = "running"

\* C5: a reconcile step from buffer P to visible list V appends exactly
\* max(0, |V - P| - |P - V|) entries, differences by item equality.
C5_NewSlotsCount ==
    LET toAdd == Contents(rec.V) \ Contents(rec.P)
        toFree == Contents(rec.P) \ Contents(rec.V)
        n == Max(0, Cardinality(toAdd) - Cardinality(toFree))
    IN  /\ Len(rec.itemsToAppend) = n
        /\ Len(buffer) >= n
        /\ SubSeq(buffer, Len(buffer) - n + 1, Len(buffer)) = rec.itemsToAppend
        /\ Len(buffer) - n <= Len(rec.P)

\* a step that reuses freed slots and still has to append
C5_Witness ==
    LET toAdd == Contents(rec.V) \ Contents(rec.P)
        toFree == Contents(rec.P) \ Contents(rec.V)
    IN  /\ rec.q > 0
        /\ Cardinality(toFree) > 0
        /\ Cardinality(toAdd) > Cardinality(toFree)

\* the buffer C6 describes, from P and V alone
InList(x, list) == \E j \in 1..Len(list) : Equals(list[j], x)
Entering(P, V) == SelectSeq(V, LAMBDA v : ~InList(v, P))
Freed(P, V) == { j \in 1..Len(P) : ~InList(P[j], V) }
RECURSIVE Joined(_, _)
Joined(parts, i) == IF i > Len(parts) THEN << >> ELSE parts[i] \o Joined(parts, i + 1)
Reconciled(P, V) ==
    LET entering == Entering(P, V)
        freed == Freed(P, V)
        paired == Min(Len(entering), Cardinality(freed))
        rank(i) == Cardinality({ j \in freed : j <= i })
        slot(i) == IF i \notin freed THEN << P[i] >>
                   ELSE IF rank(i) <= paired THEN << entering[rank(i)] >>
                   ELSE << >>
    IN  Joined([i \in 1..Len(P) |-> slot(i)], 1)
            \o SubSeq(entering, paired + 1, Len(entering))

\* C6: after a reconcile step every slot of P whose item is in V is in the
\* buffer as the same object, and the buffer is P with the unpaired freed
\* slots removed, the paired ones replaced in place and the unpaired new
\* items appended.
C6_SlotsKeptInPlace ==
    /\ buffer = Reconciled(rec.P, rec.V)
    /\ \A i \in 1..Len(rec.P) :
         InList(rec.P[i], rec.V) => \E j \in 1..Len(buffer) : buffer[j] = rec.P[i]

\* a step that keeps a slot, replaces one in place and removes one
C6_Witness ==
    LET freed == Cardinality({ j \in 1..Len(rec.P) : ~InList(rec.P[j], rec.V) })
    IN  /\ rec.q > 0
        /\ \E i \in 1..Len(rec.P) : InList(rec.P[i], rec.V)
        /\ Len(Entering(rec.P, rec.V)) > 0
        /\ freed > Len(Entering(rec.P, rec.V))

\* C7: with a measured item height the window starts at or before the
\* visible range, never below 0, and ends at or after the visible range.
C7_WindowCoversVisibleRange ==
    \A q \in DOMAIN inners :
        LET w == inners[q].w
        IN  inners[q].m.itemHeightWithGap > 0 =>
              /\ w.bufferedOffset >= 0
              /\ w.bufferedOffset <= w.offset
              /\ w.bufferedOffset + w.bufferedLength >= w.offset + w.length

\* a window whose margin before the visible range is cut at index 0
C7_Witness ==
    \E q \in DOMAIN inners :
        LET w == inners[q].w
        IN  /\ inners[q].m.itemHeightWithGap > 0
            /\ w.offset > 0
            /\ w.offset < Floor(w.length, 2)
            /\ w.bufferedOffset = 0

\* C8: every index of the window lies on one of the pages of the query.
C8_PagesCoverWindow ==
    \A q \in DOMAIN inners :
        LET w == inners[q].w
        IN  \A i \in w.bufferedOffset .. (w.bufferedOffset + w.bufferedLength - 1) :
                /\ w.startPage * inners[q].ps <= i
                /\ i < w.endPage * inners[q].ps

\* a window that starts and ends inside pages, after page 0
C8_Witness ==
    \E q \in DOMAIN inners :
        LET w == inners[q].w
        IN  /\ w.startPage > 0
            /\ w.bufferedOffset % inners[q].ps # 0
            /\ (w.bufferedOffset + w.bufferedLength) % inners[q].ps # 0

\* C9: a slice given to the reconciler holds bufferedLength items, the i-th
\* of them with index bufferedOffset + i.
C9_SliceIsTheWindow ==
    rec.q > 0 =>
        /\ Len(rec.V) = rec.w.bufferedLength
        /\ \A i \in 1..Len(rec.V) : rec.V[i].index = rec.w.bufferedOffset + i - 1

\* C10: the window ends at or before the end of the last page that holds an
\* item of the collection.
C10_WindowWithinCollection ==
    \A q \in DOMAIN inners :
        LET w == inners[q].w
        IN  w.bufferedOffset + w.bufferedLength <= Ceil(totalCount, inners[q].ps) * inners[q].ps

\* C11: a step that changes the total item count issues a new query at once,
\* whose accumulator is built anew: no scroll, resize or mount is needed.
C11_LengthChangeIssuesQuery ==
    [][totalCount' # totalCount => issued' > issued]_vars

\* a step in which contentHeight$ measures the geometry as m: the mount or a
\* resize event
MeasuredAs(m) ==
    \/ \E h \in Tops : Mount(h, m)
    \/ ResizeContentHeight(m)
    \/ \E vh \in InnerHeights : ResizeScripted(heightAboveWindow, vh, m)
    \/ \E vh \in InnerHeights : ResizeAfterError(vh, m)

\* the rows a grid of c columns needs for len items
RowsNeeded(len, c) == CHOOSE n \in 0..len : n * c >= len /\ (n - 1) * c < len

\* the content height the claim gives for measure m and len items
HeightOf(m, len) == m.itemHeightWithGap * RowsNeeded(len, m.columns) - m.rowGap

\* C12: after every step that measures the geometry (mount, resize) the
\* exposed contentHeight is itemHeightWithGap * ceil(totalCount / columns) -
\* rowGap, of that measurement and of the total item count at that moment.
C12_ContentHeightAfterMeasurement ==
    [][\A m \in Measures :
         MeasuredAs(m) =>
             contentHeight' = [ set |-> TRUE, px |-> HeightOf(m, totalCount') ]]_vars

\* a resize the browser has dispatched after the total item count has
\* changed: its last listener has measured a grid with a row gap whose last
\* row is not full, another grid than the one the listener before it has
\* measured for the query
C12_Witness ==
    /\ totalCount \in ChangedLengths
    /\ innerHeight \in InnerHeights
    /\ pc = "idle"
    /\ status = "running"
    /\ issued >= 3
    /\ contentHeight.set
    /\ contentHeight.px # HeightOf(measure, totalCount)
    /\ \E m \in Measures :
         /\ m.rowGap > 0
         /\ totalCount % m.columns # 0
         /\ contentHeight.px = HeightOf(m, totalCount)
         /\ \A n \in Lengths : contentHeight.px # HeightOf(m, n)

\* C13: the scan of a query receives the placeholder pages of all pages of
\* the range first, in the order of the range and each of pageSize pending
\* entries, and the fetched pages after them, also when the page's result
\* was memoized before the query was issued.
C13_PlaceholdersFirst ==
    \A q \in DOMAIN inners :
        LET w == inners[q].w
            log == inners[q].log
        IN  /\ Len(log) >= w.numberOfPages
            /\ \A i \in 1..w.numberOfPages :
                 log[i] = << "placeholder", w.startPage + i - 1 >>
            /\ \A i \in (w.numberOfPages + 1)..Len(log) :
                 /\ log[i][1] = "fetched"
                 /\ log[i][2] \in Pages(w)
            /\ Len(log) = w.numberOfPages =>
                 inners[q].acc = PlaceholdersMerged(<< >>, w.startPage, q)

\* a query of several pages, all of them fetched by an earlier query, whose
\* scan has received their placeholders and their items
C13_Witness ==
    \E q \in DOMAIN inners :
        LET w == inners[q].w
        IN  /\ w.numberOfPages >= 2
            /\ \A p \in Pages(w) : cache[Key(p, inners[q].ps)].by < q
            /\ Len(inners[q].log) = 2 * w.numberOfPages

\* C14: the accumulator of a query holds only objects that this query has
\* created, one for each position of its pages: nothing an earlier query
\* merged is in it, also when the earlier query covered the same pages.
C14_AccumulatorStartsEmpty ==
    \A q \in DOMAIN inners :
        /\ \A i \in 1..Len(inners[q].acc) : inners[q].acc[i].oid[1] = q
        /\ Len(inners[q].log) = inners[q].w.numberOfPages =>
             Len(inners[q].acc) = inners[q].w.numberOfPages * inners[q].ps

\* a later query over pages an earlier query has fetched and merged, with
\* its own accumulator of placeholders and fetched items
C14_Witness ==
    \E q \in DOMAIN inners :
        /\ q >= 2
        /\ inners[q].w.numberOfPages >= 1
        /\ rec.q \in 1..(q - 1)
        /\ rec.w = inners[q].w
        /\ \E i \in 1..Len(rec.V) : rec.V[i].value # << "undefined" >>
        /\ \E i \in 1..Len(inners[q].acc) : inners[q].acc[i].value # << "undefined" >>
        /\ \E i \in 1..Len(inners[q].acc) : inners[q].acc[i].value = << "undefined" >>

\* C15: the accumulator updates of one task and its microtasks, which follow
\* each other within the debounce interval, give the reconciler at most one
\* update of that query, and it carries the accumulator after the last of
\* them.
C15_BurstGivesOneUpdate ==
    [][\A q \in DOMAIN inners' :
         LET before == IF q \in DOMAIN inners THEN inners[q].emits ELSE 0
         IN  /\ inners'[q].emits <= before + 1
             /\ inners'[q].emits > before =>
                  /\ rec'.q = q
                  /\ rec'.V = VisibleSlice(inners'[q].w, inners'[q].ps, inners'[q].acc)]_vars

\* a query whose scan has received the placeholders and the items of several
\* pages, and which has updated the buffer once, with the items
C15_Witness ==
    \E q \in DOMAIN inners :
        /\ inners[q].w.numberOfPages >= 2
        /\ Len(inners[q].log) = 2 * inners[q].w.numberOfPages
        /\ inners[q].emits = 1
        /\ rec.q = q
        /\ \A i \in 1..Len(rec.V) : rec.V[i].value # << "undefined" >>

\* C16: a query whose measure has itemHeightWithGap 0 has the empty window
\* (visible length 0, bufferedLength 0, no pages), subscribes to no page and
\* invokes the page provider for none; its window is computed without a
\* division by the height.
C16_ZeroHeightEmptyWindow ==
    \A q \in DOMAIN inners :
        inners[q].m.itemHeightWithGap = 0 =>
            /\ inners[q].w.length = 0
            /\ inners[q].w.bufferedLength = 0
            /\ inners[q].w.numberOfPages = 0
            /\ DOMAIN inners[q].subs = {}
            /\ inners[q].log = << >>
            /\ inners[q].acc = << >>
            /\ \A k \in DOMAIN cache : cache[k].by # q

\* a query with a measure of height 0, issued at a scroll position below the
\* top after a query that has fetched pages
C16_Witness ==
    \E q \in DOMAIN inners :
        /\ inners[q].m.itemHeightWithGap = 0
        /\ q >= 2
        /\ heightAboveWindow > 0
        /\ \E k \in DOMAIN cache : cache[k].st = "resolved"

\* C17: after a reconcile step the buffer holds the items of the visible
\* slice it was given and no other: each item of the slice once, as many
\* slots as the slice has items.
C17_BufferHoldsTheSlice ==
    rec.q > 0 =>
        /\ Len(buffer) = Len(rec.V)
        /\ \A i \in 1..Len(rec.V) :
             Cardinality({ j \in 1..Len(buffer) : Content(buffer[j]) = Content(rec.V[i]) }) = 1
        /\ \A j \in 1..Len(buffer) :
             \E i \in 1..Len(rec.V) : Content(rec.V[i]) = Content(buffer[j])

\* a step from a buffer that shares items with the slice, has items the
\* slice has not, and lacks items of the slice
C17_Witness ==
    /\ rec.q > 0
    /\ Contents(rec.P) \cap Contents(rec.V) # {}
    /\ Contents(rec.P) \ Contents(rec.V) # {}
    /\ Contents(rec.V) \ Contents(rec.P) # {}
    /\ Len(rec.P) # Len(rec.V)

\* a fetch of a page of query q has failed or has come with another number
\* of items than the page size it was asked with
Unfit(q) ==
    \E p \in Pages(inners[q].w) :
        \/ cache[Key(p, inners[q].ps)].st = "rejected"
        \/ /\ cache[Key(p, inners[q].ps)].st = "resolved"
           /\ cache[Key(p, inners[q].ps)].len # inners[q].ps

\* the buffer has a slot with the fetched value for every index of the
\* window of query q, and q has nothing left to pass on
Shown(q) ==
    LET w == inners[q].w
    IN  /\ inners[q].done
        /\ ~inners[q].timer
        /\ \A i \in w.bufferedOffset .. (w.bufferedOffset + w.bufferedLength - 1) :
             \E j \in 1..Len(buffer) :
                 /\ buffer[j].index = i
                 /\ buffer[j].value = << "item", i \div inners[q].ps, i % inners[q].ps >>

\* C18: when no trigger event arrives any more and the pages of the query
\* issued last all resolve with pageSize items, the buffer comes to hold a
\* slot with the fetched value for every index of that query's window, and
\* stays so.  (A pipeline in error had a fetch of its last query rejected.)
C18_BufferSettles ==
    /\ <>[](\/ ~mounted
            \/ status = "error" /\ \E k \in DOMAIN cache : cache[k].st = "rejected"
            \/ status = "running" /\ \A q \in DOMAIN inners : Unfit(q) \/ Shown(q))
    /\ [][(issued' = issued /\ \A q \in DOMAIN inners : Shown(q)) => buffer' = buffer]_vars

\* C19: an item of an accumulator has the index pageNumber * pageSize +
\* localIndex, pageSize being the page size its page was asked with, which
\* for a fetched item is the place of its value in its page and for a
\* placeholder its place in the accumulator, and the position
\* x = (index mod columns) * itemWidthWithGap, y = floor(index / columns) *
\* itemHeightWithGap of the measure of its query.
C19_IndexAndPosition ==
    \A q \in DOMAIN inners :
        \A j \in 1..Len(inners[q].acc) :
            LET it == inners[q].acc[j]
                m == inners[q].m
            IN  /\ it.value # << "undefined" >> =>
                     it.index = it.value[2] * inners[q].ps + it.value[3]
                /\ it.value = << "undefined" >> =>
                     it.index = inners[q].w.startPage * inners[q].ps + (j - 1)
                /\ it.index >= 0
                /\ it.style[2] = (it.index % m.columns) * m.itemWidthWithGap
                /\ it.style[3] * m.columns <= it.index * m.itemHeightWithGap
                /\ it.style[3] * m.columns > (it.index - m.columns) * m.itemHeightWithGap
                /\ \E r \in 0..it.index : it.style[3] = r * m.itemHeightWithGap

====
